---- MODULE Spec2Model ----
(***************************************************************************)
(* SCP-294 backend: the POST /api/scp294 pipeline (rate-limit gate, query  *)
(* normalisation, pre-filter, moderation, structured generation,           *)
(* extraction, sanitisation, fallback ladder) in the four revisions of the *)
(* route handler kept in the repository:                                   *)
(*   "main"     src/index.js 268-362          (timeouts, sanitizer)        *)
(*   "first"    src/index.js 45-120           (text.format revision)       *)
(*   "part000"  src/unnamed/part_000 24-97    (oldest handler)             *)
(*   "envelope" src/unnamed/part_003 150-216  ({status, source, drink})    *)
(*                                                                         *)
(* JavaScript strings are TLA+ strings; numbers are fixed-point integers   *)
(* in tenths (0.5 is 5, 15 is 150); every other JavaScript value is a      *)
(* tagged record, see the section "JavaScript values".                     *)
(***************************************************************************)
EXTENDS Integers, Sequences, FiniteSets, TLC

(***************************************************************************)
(* Strings                                                                 *)
(***************************************************************************)

\* s[i] as a one-character string (1-based)
CharAt(s, i) == SubSeq(s, i, i)

\* String.prototype.slice(from, to) for 0 <= from <= to (0-based, to exclusive)
Slice(s, from, to) ==
  LET hi == IF to < Len(s) THEN to ELSE Len(s)
  IN  IF from >= hi THEN "" ELSE SubSeq(s, from + 1, hi)

WhiteSpace == {" "}

RECURSIVE TrimStart(_)
TrimStart(s) ==
  IF Len(s) > 0 /\ CharAt(s, 1) \in WhiteSpace
  THEN TrimStart(SubSeq(s, 2, Len(s)))
  ELSE s

RECURSIVE TrimEnd(_)
TrimEnd(s) ==
  IF Len(s) > 0 /\ CharAt(s, Len(s)) \in WhiteSpace
  THEN TrimEnd(SubSeq(s, 1, Len(s) - 1))
  ELSE s

\* String.prototype.trim
Trim(s) == TrimEnd(TrimStart(s))

UpperAlpha == "ABCDEFGHIJKLMNOPQRSTUVWXYZ"
LowerAlpha == "abcdefghijklmnopqrstuvwxyz"

LowerChar(c) ==
  IF \E i \in 1..Len(UpperAlpha) : CharAt(UpperAlpha, i) = c
  THEN LET i == CHOOSE i \in 1..Len(UpperAlpha) : CharAt(UpperAlpha, i) = c
       IN  CharAt(LowerAlpha, i)
  ELSE c

\* String.prototype.toLowerCase
RECURSIVE ToLowerCase(_)
ToLowerCase(s) ==
  IF s = "" THEN ""
  ELSE LowerChar(CharAt(s, 1)) \o ToLowerCase(SubSeq(s, 2, Len(s)))

\* String.prototype.includes
Includes(s, term) ==
  \E i \in 1..(Len(s) - Len(term) + 1) : SubSeq(s, i, i + Len(term) - 1) = term

StartsWith(s, p) == Len(s) >= Len(p) /\ SubSeq(s, 1, Len(p)) = p
EndsWith(s, p) == Len(s) >= Len(p) /\ SubSeq(s, Len(s) - Len(p) + 1, Len(s)) = p

\* n copies of the string c
RECURSIVE Rep(_, _)
Rep(c, n) == IF n <= 0 THEN "" ELSE c \o Rep(c, n - 1)

HexDigits == "0123456789abcdefABCDEF"

IsHexDigit(c) == \E i \in 1..Len(HexDigits) : CharAt(HexDigits, i) = c

\* /^#[0-9a-fA-F]{6}$/.test(s)
IsHexColor(s) ==
  /\ Len(s) = 7
  /\ CharAt(s, 1) = "#"
  /\ \A i \in 2..7 : IsHexDigit(CharAt(s, i))

(***************************************************************************)
(* JavaScript values                                                       *)
(*   undefined, null, string, number (tenths), boolean, array, object.     *)
(* Each tag has its own payload field so that values of different types    *)
(* are comparable.                                                         *)
(***************************************************************************)

Undef == [t |-> "undefined"]
Null == [t |-> "null"]
Str(s) == [t |-> "string", s |-> s]
Num(n) == [t |-> "number", n |-> n]
Bool(b) == [t |-> "boolean", b |-> b]
Arr(a) == [t |-> "array", a |-> a]
Obj(o) == [t |-> "object", o |-> o]

\* {}
EmptyObj == Obj([k \in {} |-> Undef])

IsStr(v) == v.t = "string"
IsNum(v) == v.t = "number"
IsBool(v) == v.t = "boolean"
IsArr(v) == v.t = "array"
IsObj(v) == v.t = "object"
IsNullish(v) == v.t \in {"undefined", "null"}

\* typeof v === "object" (null and arrays included)
TypeofObject(v) == v.t \in {"object", "array", "null"}

\* ToBoolean
Truthy(v) ==
  CASE v.t = "undefined" -> FALSE
    [] v.t = "null" -> FALSE
    [] v.t = "string" -> v.s # ""
    [] v.t = "number" -> v.n # 0
    [] v.t = "boolean" -> v.b
    [] OTHER -> TRUE

\* a || b
OrElse(a, b) == IF Truthy(a) THEN a ELSE b

\* a ?? b
Coalesce(a, b) == IF IsNullish(a) THEN b ELSE a

\* v.k and v?.k on a value that is not null or undefined: own property or
\* undefined (arrays and primitives of the model carry no named property)
Get(v, k) == IF IsObj(v) /\ k \in DOMAIN v.o THEN v.o[k] ELSE Undef

\* v[i] for a 0-based index
At(v, i) == IF IsArr(v) /\ i + 1 \in 1..Len(v.a) THEN v.a[i + 1] ELSE Undef

\* v.k throws a TypeError exactly when v is null or undefined
Throws(v) == IsNullish(v)

Digits == "0123456789"

RECURSIVE NatToStr(_)
NatToStr(n) ==
  IF n < 10 THEN CharAt(Digits, n + 1)
  ELSE NatToStr(n \div 10) \o CharAt(Digits, (n % 10) + 1)

\* Number.prototype.toString of a number held in tenths
NumToStr(n) ==
  LET m == IF n < 0 THEN 0 - n ELSE n
      whole == NatToStr(m \div 10)
      frac == IF m % 10 = 0 THEN "" ELSE "." \o CharAt(Digits, (m % 10) + 1)
  IN  (IF n < 0 THEN "-" ELSE "") \o whole \o frac

\* String(v)
RECURSIVE StringOf(_)
RECURSIVE JoinFrom(_, _)
JoinFrom(a, i) ==
  IF i > Len(a) THEN ""
  ELSE (IF i > 1 THEN "," ELSE "")
       \o (IF IsNullish(a[i]) THEN "" ELSE StringOf(a[i]))
       \o JoinFrom(a, i + 1)

StringOf(v) ==
  CASE v.t = "undefined" -> "undefined"
    [] v.t = "null" -> "null"
    [] v.t = "string" -> v.s
    [] v.t = "number" -> NumToStr(v.n)
    [] v.t = "boolean" -> (IF v.b THEN "true" ELSE "false")
    [] v.t = "array" -> JoinFrom(v.a, 1)
    [] OTHER -> "[object Object]"

\* Number(v) || 0, in tenths, for the values the model draws: numbers, and
\* everything else that is not numeric text (NaN || 0 is 0)
NumberOrZero(v) == IF IsNum(v) THEN v.n ELSE 0

Min(a, b) == IF a < b THEN a ELSE b
Max(a, b) == IF a > b THEN a ELSE b

(***************************************************************************)
(* Effect Catalog and Response Schema (src/index.js 152-200)               *)
(***************************************************************************)

TemperatureEnum == {"cold", "cool", "ambient", "warm", "hot"}
ContainerEnum == {"paper_cup", "mug", "glass", "metal_cup"}
EffectEnum ==
  {"NONE", "WARMTH", "COOLING", "SPEED_SMALL", "JUMP_SMALL", "GLOW",
   "SHRINK_VFX", "GROW_VFX", "BURP", "EXPLODE"}

DisplayNameMaxLength == 40
MessageMaxLength == 120
TasteNotesMaxItems == 3

VisualKeys == {"foam", "bubbles", "steam"}
ParamKeys ==
  {"duration", "speedMultiplier", "jumpBoost", "glowBrightness", "power", "radius"}

\* minimum and maximum of every effectParams entry, in tenths
ParamRange ==
  [duration        |-> [min |-> 5, max |-> 150],
   speedMultiplier |-> [min |-> 5, max |-> 20],
   jumpBoost       |-> [min |-> 0, max |-> 500],
   glowBrightness  |-> [min |-> 0, max |-> 100],
   power           |-> [min |-> 0, max |-> 10],
   radius          |-> [min |-> 0, max |-> 120]]

SchemaProperties ==
  {"displayName", "colorHex", "temperature", "container", "visual",
   "tasteNotes", "effectId", "effectParams", "message"}
SchemaRequired == SchemaProperties \ {"effectParams"}

VisualValid(v) ==
  /\ IsObj(v)
  /\ DOMAIN v.o = VisualKeys
  /\ \A k \in VisualKeys : IsBool(v.o[k])

EffectParamsValid(v) ==
  /\ IsObj(v)
  /\ DOMAIN v.o = ParamKeys
  /\ \A k \in ParamKeys :
       /\ IsNum(v.o[k])
       /\ v.o[k].n >= ParamRange[k].min
       /\ v.o[k].n <= ParamRange[k].max

\* the pattern "^#([0-9A-Fa-f]{6})$" of the schema
ColorHexValid(v) == IsStr(v) /\ IsHexColor(v.s)

\* v is an instance of DrinkSchema
DrinkSchema(v) ==
  /\ IsObj(v)
  /\ DOMAIN v.o \subseteq SchemaProperties
  /\ SchemaRequired \subseteq DOMAIN v.o
  /\ IsStr(v.o.displayName) /\ Len(v.o.displayName.s) <= DisplayNameMaxLength
  /\ ColorHexValid(v.o.colorHex)
  /\ IsStr(v.o.temperature) /\ v.o.temperature.s \in TemperatureEnum
  /\ IsStr(v.o.container) /\ v.o.container.s \in ContainerEnum
  /\ VisualValid(v.o.visual)
  /\ IsArr(v.o.tasteNotes)
  /\ Len(v.o.tasteNotes.a) <= TasteNotesMaxItems
  /\ \A i \in 1..Len(v.o.tasteNotes.a) : IsStr(v.o.tasteNotes.a[i])
  /\ IsStr(v.o.effectId) /\ v.o.effectId.s \in EffectEnum
  /\ ("effectParams" \in DOMAIN v.o => EffectParamsValid(v.o.effectParams))
  /\ IsStr(v.o.message) /\ Len(v.o.message.s) <= MessageMaxLength

Visual(foam, bubbles, steam) ==
  Obj([foam |-> Bool(foam), bubbles |-> Bool(bubbles), steam |-> Bool(steam)])

(***************************************************************************)
(* Fallback ladder of the bare-object revisions                            *)
(***************************************************************************)

\* src/index.js 203-212
FALLBACK_OK(q) ==
  Obj([displayName |-> OrElse(Str(q), Str("Generic Beverage")),
       colorHex    |-> Str("#A0C4FF"),
       temperature |-> Str("ambient"),
       container   |-> Str("paper_cup"),
       visual      |-> Visual(FALSE, TRUE, FALSE),
       tasteNotes  |-> Arr(<<Str("mild")>>),
       effectId    |-> Str("NONE"),
       message     |-> Str("A nondescript drink dispenses with a soft hum.")])

\* src/unnamed/part_000 71-80: the failover object of the oldest handler
GenericBeverage ==
  Obj([displayName |-> Str("Generic Beverage"),
       colorHex    |-> Str("#A0C4FF"),
       temperature |-> Str("ambient"),
       container   |-> Str("paper_cup"),
       visual      |-> Visual(FALSE, TRUE, FALSE),
       tasteNotes  |-> Arr(<<Str("mild")>>),
       effectId    |-> Str("NONE"),
       message     |-> Str("A nondescript drink dispenses with a soft hum.")])

\* src/index.js 284-293: the object sent on a flagged moderation verdict
RefusalFallback ==
  Obj([displayName |-> Str("Unknown Liquid"),
       colorHex    |-> Str("#7F7F7F"),
       temperature |-> Str("ambient"),
       container   |-> Str("paper_cup"),
       visual      |-> Visual(FALSE, FALSE, FALSE),
       tasteNotes  |-> Arr(<<Str("neutral")>>),
       effectId    |-> Str("NONE"),
       message     |-> Str("The machine refuses to dispense that request.")])

\* src/index.js 351-360: the object sent from the outer catch
HardFailsafe ==
  Obj([displayName |-> Str("Machine Coolant (Safe Replica)"),
       colorHex    |-> Str("#88E0FF"),
       temperature |-> Str("cool"),
       container   |-> Str("metal_cup"),
       visual      |-> Visual(FALSE, FALSE, FALSE),
       tasteNotes  |-> Arr(<<Str("minty")>>),
       effectId    |-> Str("COOLING"),
       message     |-> Str("Failsafe blend dispensed.")])

\* src/index.js 274
MissingQuery == Obj([error |-> Str("Missing query")])

(***************************************************************************)
(* Sanitizer of the main revision (src/index.js 330-345)                   *)
(***************************************************************************)

\* data.tasteNotes.slice(0,3).map(String)
TasteNotesOf(v) ==
  LET n == Min(Len(v.a), 3)
  IN  Arr([i \in 1..n |-> Str(StringOf(v.a[i]))])

Clean(data, query) ==
  Obj([displayName |->
         Str(Slice(StringOf(OrElse(Get(data, "displayName"),
                                   OrElse(Str(query), Str("Beverage")))), 0, 40)),
       colorHex |->
         IF IsHexColor(StringOf(Get(data, "colorHex")))
         THEN Get(data, "colorHex") ELSE Str("#A0C4FF"),
       temperature |->
         IF IsStr(Get(data, "temperature")) /\ Get(data, "temperature").s \in TemperatureEnum
         THEN Get(data, "temperature") ELSE Str("ambient"),
       container |->
         IF IsStr(Get(data, "container")) /\ Get(data, "container").s \in ContainerEnum
         THEN Get(data, "container") ELSE Str("paper_cup"),
       visual |->
         Obj([foam    |-> Bool(Truthy(Get(Get(data, "visual"), "foam"))),
              bubbles |-> Bool(Truthy(Get(Get(data, "visual"), "bubbles"))),
              steam   |-> Bool(Truthy(Get(Get(data, "visual"), "steam")))]),
       tasteNotes |->
         IF IsArr(Get(data, "tasteNotes"))
         THEN TasteNotesOf(Get(data, "tasteNotes")) ELSE Arr(<<>>),
       effectId |->
         IF IsStr(Get(data, "effectId")) /\ Get(data, "effectId").s \in EffectEnum
         THEN Get(data, "effectId") ELSE Str("NONE"),
       effectParams |->
         IF TypeofObject(Get(data, "effectParams")) /\ Truthy(Get(data, "effectParams"))
         THEN Get(data, "effectParams") ELSE EmptyObj,
       message |->
         OrElse(Str(Slice(StringOf(OrElse(Get(data, "message"), Str(""))), 0, 120)),
                Str("The machine chirps pleasantly."))])

(***************************************************************************)
(* JSON text                                                               *)
(* The text of a JSON object is "{" \o d \o "}" for a document name d of   *)
(* Documents (further down); "{}" is the empty object and "null" is null.  *)
(* Every other text is not JSON.                                           *)
(***************************************************************************)

\* index (1-based) of the first "{" of s, 0 when there is none
FirstBrace(s) ==
  IF \E i \in 1..Len(s) : CharAt(s, i) = "{"
  THEN CHOOSE i \in 1..Len(s) :
         /\ CharAt(s, i) = "{"
         /\ \A j \in 1..(i - 1) : CharAt(s, j) # "{"
  ELSE 0

\* index of the last "}" of s, 0 when there is none
LastBrace(s) ==
  IF \E i \in 1..Len(s) : CharAt(s, i) = "}"
  THEN CHOOSE i \in 1..Len(s) :
         /\ CharAt(s, i) = "}"
         /\ \A j \in (i + 1)..Len(s) : CharAt(s, j) # "}"
  ELSE 0

\* s.match(/\{[\s\S]*\}/): greedy, from the first "{" to the last "}"
BraceMatch(s) ==
  IF FirstBrace(s) > 0 /\ LastBrace(s) > FirstBrace(s)
  THEN [found |-> TRUE, text |-> SubSeq(s, FirstBrace(s), LastBrace(s))]
  ELSE [found |-> FALSE, text |-> ""]

NotFound == [found |-> FALSE, val |-> Undef]
Found(v) == [found |-> TRUE, val |-> v]

\* JSON.parse(s) over a table of documents: found is FALSE when it throws
JSONParseIn(docs, s) ==
  IF s = "null" THEN Found(Null)
  ELSE IF s = "{}" THEN Found(EmptyObj)
  ELSE IF /\ StartsWith(s, "{") /\ EndsWith(s, "}") /\ Len(s) > 2
          /\ SubSeq(s, 2, Len(s) - 1) \in DOMAIN docs
       THEN Found(docs[SubSeq(s, 2, Len(s) - 1)])
       ELSE NotFound

(***************************************************************************)
(* The envelope revision (src/unnamed/part_003)                            *)
(***************************************************************************)

EFFECT_ENUM ==
  {"NONE","WARMTH","COOLING",
   "SPEED_SMALL","SPEED_MED","SPEED_LARGE",
   "JUMP_SMALL","JUMP_MED",
   "LOW_GRAVITY","HIGH_GRAVITY","SLIPPERY","STICKY",
   "GLOW","GLOW_STRONG","AURA_SPARKS","SMOKE_PUFF",
   "CAMERA_SHAKE","TUNNEL_VISION","SPIN","KNOCKDOWN",
   "BURP","BREEZE","POP_EXPLODE",
   "BURP_SFX","SODA_OPEN","MAGIC_CHIME","THUNDER_CLAP","BASS_DROP","DUCK_QUACK",
   "BUBBLES","CONFETTI","HEARTS","SKULLS","STARBURST","FOG_RING","FOG_RING_EMIT",
   "DUCK_PROP","BALLOON_SPAWN","HAT_PROP",
   "VINTAGE_FILTER","PIXELATE","SCANLINES",
   "SHRINK_VFX","GROW_VFX"}

DENY ==
  {"acid", "cyanide", "poison", "bleach", "mercury", "radiation",
   "uranium", "napalm", "arsenic", "rat poison", "chloroform", "lye",
   "blood", "semen", "urine", "feces", "gasoline", "diesel",
   "antifreeze", "heroin", "cocaine", "meth", "fentanyl"}

\* isDenied without the toLowerCase of part_003 108
isDeniedCaseSensitive(query) ==
  LET q == StringOf(OrElse(Str(query), Str("")))
  IN  \E term \in DENY : Includes(q, term)

\* part_003 107-110
isDenied(query) ==
  LET q == ToLowerCase(StringOf(OrElse(Str(query), Str(""))))
  IN  \E term \in DENY : Includes(q, term)

NeutralParams ==
  Obj([duration |-> Num(0), speedMultiplier |-> Num(10), jumpBoost |-> Num(0),
       glowBrightness |-> Num(0), power |-> Num(0), radius |-> Num(0)])

\* part_003 78-86
FALLBACK_DENY(q) ==
  Obj([drinkName    |-> Str("Unknown Liquid"),
       colorHex     |-> Str("#5A5A5A"),
       description  |-> Str("The machine hums but refuses your request."),
       tasteNotes   |-> Str("Flat, metallic, indeterminate."),
       effectId     |-> Str("NONE"),
       effectParams |-> NeutralParams,
       safe         |-> Bool(FALSE)])

\* part_003 88-96
FALLBACK_OK_Envelope(q) ==
  Obj([drinkName    |-> Str("Cup of " \o Slice(q, 0, 50)),
       colorHex     |-> Str("#8FD6FF"),
       description  |-> Str("A mysteriously accurate rendition appears in the cup."),
       tasteNotes   |-> Str("Surprisingly authentic."),
       effectId     |-> Str("NONE"),
       effectParams |-> NeutralParams,
       safe         |-> Bool(TRUE)])

\* part_003 154
MissingQueryEnvelope ==
  Obj([status |-> Str("error"), code |-> Num(4000),
       message |-> Str("Missing 'query' body field")])

\* part_003 214
ServerError ==
  Obj([status |-> Str("error"), code |-> Num(5000), message |-> Str("Server error")])

\* part_003 159, 188, 211: { status: "ok", source, drink }
Envelope(source, drink) ==
  Obj([status |-> Str("ok"), source |-> Str(source), drink |-> drink])

\* part_003 202: Math.max(lo, Math.min(hi, Number(v) || 0)), in tenths
clamp(v, lo, hi) == Max(lo, Min(hi, NumberOrZero(v)))

\* the clamping bounds of part_003 203-208, in tenths
ClampRange ==
  [duration        |-> [min |-> 0, max |-> 600],
   speedMultiplier |-> [min |-> 2, max |-> 30],
   jumpBoost       |-> [min |-> 0, max |-> 800],
   glowBrightness  |-> [min |-> 0, max |-> 200],
   power           |-> [min |-> 0, max |-> 100],
   radius          |-> [min |-> 0, max |-> 300]]

\* part_003 194-209: the final guard and the clamp, on an extracted object
GuardAndClamp(drink) ==
  LET guarded ==
        IF IsStr(Get(drink, "effectId")) /\ Get(drink, "effectId").s \in EFFECT_ENUM
        THEN drink
        ELSE Obj([k \in DOMAIN drink.o \union {"effectId", "effectParams"} |->
                   CASE k = "effectId" -> Str("NONE")
                     [] k = "effectParams" -> NeutralParams
                     [] OTHER -> drink.o[k]])
      ep == OrElse(Get(guarded, "effectParams"), EmptyObj)
      clamped ==
        IF IsObj(ep)
        THEN Obj([k \in DOMAIN ep.o \union ParamKeys |->
                   IF k \in ParamKeys
                   THEN Num(clamp(Get(ep, k), ClampRange[k].min, ClampRange[k].max))
                   ELSE ep.o[k]])
        ELSE ep
  IN  Obj([k \in DOMAIN guarded.o \union {"effectParams"} |->
            IF k = "effectParams" THEN clamped ELSE guarded.o[k]])

(***************************************************************************)
(* What the generation service may return                                  *)
(***************************************************************************)

InRangeParams ==
  Obj([duration |-> Num(50), speedMultiplier |-> Num(15), jumpBoost |-> Num(0),
       glowBrightness |-> Num(80), power |-> Num(5), radius |-> Num(0)])

OutOfRangeParams ==
  Obj([duration |-> Num(9990), speedMultiplier |-> Num(1), jumpBoost |-> Num(-10),
       glowBrightness |-> Num(80), power |-> Num(25), radius |-> Str("wide")])

DocValid ==
  Obj([displayName  |-> Str("Sunny Lemonade"),
       colorHex     |-> Str("#FFE066"),
       temperature  |-> Str("cold"),
       container    |-> Str("glass"),
       visual       |-> Visual(FALSE, TRUE, FALSE),
       tasteNotes   |-> Arr(<<Str("tart"), Str("sweet")>>),
       effectId     |-> Str("GLOW"),
       effectParams |-> InRangeParams,
       message      |-> Str("You feel radiant.")])

\* valid, and without the optional effectParams
DocPlain ==
  Obj([k \in DOMAIN DocValid.o \ {"effectParams"} |->
        IF k = "effectId" THEN Str("EXPLODE") ELSE DocValid.o[k]])

\* valid, with an empty displayName and an empty message
DocEmpty ==
  Obj([k \in DOMAIN DocValid.o |->
        IF k \in {"displayName", "message"} THEN Str("") ELSE DocValid.o[k]])

DocNoEffect == Obj([k \in DOMAIN DocValid.o \ {"effectId"} |-> DocValid.o[k]])

DocUnknownEffect ==
  Obj([k \in DOMAIN DocValid.o |->
        CASE k = "effectId" -> Str("TELEPORT")
          [] k = "effectParams" -> OutOfRangeParams
          [] OTHER -> DocValid.o[k]])

\* no visual, and every other field outside the schema
DocMalformed ==
  Obj([displayName  |-> Str(Rep("N", 41)),
       colorHex     |-> Arr(<<Str("#ABCDEF")>>),
       temperature  |-> Str("boiling"),
       container    |-> Num(10),
       tasteNotes   |-> Arr(<<Str("a"), Num(15), Null, Str("d")>>),
       effectId     |-> Str("BURP"),
       effectParams |-> OutOfRangeParams,
       message      |-> Str(Rep("m", 121))])

\* the displayName is an empty array: truthy, and "" as a string
DocArrayName ==
  Obj([k \in DOMAIN DocValid.o |->
        IF k = "displayName" THEN Arr(<<>>) ELSE DocValid.o[k]])

DocEnvValid ==
  Obj([drinkName    |-> Str("Turbo Cola"),
       colorHex     |-> Str("#8FD6FF"),
       description  |-> Str("Fizzes with intent."),
       tasteNotes   |-> Str("Sharp and sweet."),
       effectId     |-> Str("SPEED_MED"),
       effectParams |-> InRangeParams,
       safe         |-> Bool(TRUE)])

DocEnvUnknown ==
  Obj([k \in DOMAIN DocEnvValid.o |->
        CASE k = "effectId" -> Str("TELEPORT")
          [] k = "effectParams" -> OutOfRangeParams
          [] OTHER -> DocEnvValid.o[k]])

\* a catalogued effect, parameters out of range
DocEnvWild ==
  Obj([k \in DOMAIN DocEnvValid.o |->
        IF k = "effectParams" THEN OutOfRangeParams ELSE DocEnvValid.o[k]])

DocEnvNoParams ==
  Obj([k \in DOMAIN DocEnvValid.o \ {"effectParams"} |-> DocEnvValid.o[k]])

\* the JSON texts "{valid}", "{plain}", ... and the objects they denote
Documents ==
  [valid |-> DocValid, plain |-> DocPlain, empty |-> DocEmpty,
   noeffect |-> DocNoEffect, unknown |-> DocUnknownEffect,
   malformed |-> DocMalformed, arrayname |-> DocArrayName, envvalid |-> DocEnvValid,
   envunknown |-> DocEnvUnknown, envwild |-> DocEnvWild,
   envnoparams |-> DocEnvNoParams]

\* JSON.parse(s): found is FALSE when it throws
JSONParse(s) == JSONParseIn(Documents, s)

\* JSON.parse(v) of any value: the argument is converted to a string first
JSONParseValue(v) ==
  CASE IsStr(v) -> JSONParse(v.s)
    [] v.t \in {"null", "number", "boolean"} -> Found(v)
    [] OTHER -> NotFound

\* { output: [ { content: [ c ] } ] }
Nested(c) == Obj([output |-> Arr(<<Obj([content |-> Arr(<<c>>)])>>)])

OutputText(text) == Obj([type |-> Str("output_text"), text |-> Str(text)])

\* response objects of openai.responses.create
Responses ==
  {Obj([output_parsed |-> DocValid]),
   Nested(OutputText("{malformed}")),
   Nested(OutputText("{arrayname}")),
   Nested(OutputText("Here is your drink: {unknown} Enjoy!")),
   Nested(Obj([type |-> Str("output_text"), parsed |-> DocNoEffect])),
   Nested(Obj([type |-> Str("output_json"), json |-> DocPlain])),
   Obj([output_text |-> Str(" {empty} ")]),
   Obj([output_text |-> Str("I cannot help with that.")]),
   Obj([output_text |-> Str("{valid} or {plain}")]),
   Obj([output |-> Arr(<<Obj([content |-> Arr(<<Obj([parsed |-> Null])>>)])>>),
        output_text |-> Str("{valid}")]),
   Obj([output |-> Arr(<<Obj([type |-> Str("reasoning")]),
                         Obj([content |-> Arr(<<Null, OutputText("{plain}")>>)])>>)]),
   Undef}

(***************************************************************************)
(* Extractors                                                              *)
(***************************************************************************)

\* src/index.js 235-238 and 246-249: the whole text, then the greedy match
ParseText(text) ==
  LET s == Trim(text)
      m == BraceMatch(s)
  IN  IF StartsWith(s, "{") /\ EndsWith(s, "}") /\ JSONParse(s).found
      THEN JSONParse(s)
      ELSE IF m.found /\ JSONParse(m.text).found
           THEN JSONParse(m.text)
           ELSE NotFound

\* src/index.js 231-239: the loop over the entries of one content array
RECURSIVE ScanContent(_, _)
ScanContent(content, j) ==
  IF j > Len(content.a) THEN NotFound
  ELSE LET c == content.a[j]
       IN  IF Truthy(c) /\ TypeofObject(Get(c, "parsed"))
           THEN Found(Get(c, "parsed"))
           ELSE IF Truthy(c) /\ TypeofObject(Get(c, "json"))
           THEN Found(Get(c, "json"))
           ELSE IF /\ Get(c, "type") = Str("output_text")
                   /\ IsStr(Get(c, "text"))
                   /\ ParseText(Get(c, "text").s).found
           THEN ParseText(Get(c, "text").s)
           ELSE ScanContent(content, j + 1)

\* src/index.js 228-242: the loop over the items of output
RECURSIVE ScanOutput(_, _)
ScanOutput(out, i) ==
  IF i > Len(out.a) THEN NotFound
  ELSE LET content == Get(out.a[i], "content")
       IN  IF IsArr(content) /\ ScanContent(content, 1).found
           THEN ScanContent(content, 1)
           ELSE ScanOutput(out, i + 1)

\* src/index.js 224-252
extractDrinkStruct(r) ==
  IF Truthy(r) /\ Truthy(Get(r, "output_parsed"))
  THEN Get(r, "output_parsed")
  ELSE IF IsArr(Get(r, "output")) /\ ScanOutput(Get(r, "output"), 1).found
  THEN ScanOutput(Get(r, "output"), 1).val
  ELSE LET t == Get(r, "output_text")
       IN  IF IsStr(t) /\ Trim(t.s) # "" /\ ParseText(t.s).found
           THEN ParseText(t.s).val
           ELSE Null

\* r.output?.[0]?.content?.[0]?.text
FirstText(r) == Get(At(Get(At(Get(r, "output"), 0), "content"), 0), "text")

\* src/index.js 88-91: found is FALSE when reading r throws; the value is
\* null when JSON.parse throws
ParseFirst(r) ==
  IF Throws(r) THEN NotFound
  ELSE LET text == Coalesce(Get(r, "output_text"), Coalesce(FirstText(r), Str("{}")))
       IN  IF JSONParseValue(text).found THEN JSONParseValue(text) ELSE Found(Null)

\* src/unnamed/part_000 65-67, likewise
ParsePart000(resp) ==
  IF Throws(resp) THEN NotFound
  ELSE LET content == Coalesce(FirstText(resp), Str("{}"))
       IN  IF JSONParseValue(content).found THEN JSONParseValue(content) ELSE Found(Null)

\* o.output.length > 0
NonEmpty(v) == (IsArr(v) /\ Len(v.a) > 0) \/ (IsStr(v) /\ Len(v.s) > 0)

\* src/unnamed/part_003 129-131: the catch branch of extractDrink
ExtractAlternate(o) ==
  IF Truthy(Get(o, "output_text")) /\ JSONParseValue(Get(o, "output_text")).found
  THEN JSONParseValue(Get(o, "output_text"))
  ELSE NotFound

\* src/unnamed/part_003 113-134: found is FALSE when extractDrink throws
extractDrink(resp) ==
  LET o == OrElse(resp, EmptyObj)
      first == At(Get(o, "output"), 0)
      content == IF Truthy(Get(first, "content"))
                 THEN At(Get(first, "content"), 0)
                 ELSE Get(first, "content")
  IN  IF Truthy(Get(o, "output")) /\ NonEmpty(Get(o, "output"))
      THEN IF Throws(first) \/ ~Truthy(content)
           THEN ExtractAlternate(o)
           ELSE IF Get(content, "type") = Str("output_text")
           THEN IF JSONParseValue(Get(content, "text")).found
                THEN JSONParseValue(Get(content, "text"))
                ELSE ExtractAlternate(o)
           ELSE IF Get(content, "type") = Str("output_json")
           THEN Found(Get(content, "json"))
           ELSE NotFound
      ELSE NotFound

\* bodies of the HTTP response of fetch in the envelope revision
FetchBodies ==
  {Nested(OutputText("{envvalid}")),
   Nested(OutputText("{envunknown}")),
   Nested(OutputText("{envnoparams}")),
   Nested(Obj([type |-> Str("output_json"), json |-> DocEnvWild])),
   Nested(Obj([type |-> Str("output_json")])),
   Obj([output |-> Arr(<<Obj([content |-> Arr(<<OutputText("oops")>>)])>>),
        output_text |-> Str("{envvalid}")]),
   Nested(OutputText("oops")),
   Obj([output_text |-> Str("{envvalid}")]),
   Nested(OutputText("null"))}

\* what fetch resolves with: r.ok, and what r.json() gives (found is FALSE
\* when the body is not JSON and r.json() rejects)
FetchResponses ==
  {[ok |-> FALSE, json |-> NotFound], [ok |-> TRUE, json |-> NotFound]}
    \union {[ok |-> TRUE, json |-> Found(b)] : b \in FetchBodies}

\* what openai.moderations.create resolves with
Verdict(flagged) == Obj([results |-> Arr(<<Obj([flagged |-> Bool(flagged)])>>)])
ModerationResults == {Verdict(TRUE), Verdict(FALSE), Obj([results |-> Arr(<<>>)]), Undef}

(***************************************************************************)
(* Requests                                                                *)
(***************************************************************************)

MaxQueryLength == 50

QueryTexts ==
  {"", "   ", "lemonade", "  lemonade ", "cyanide", "Hot CYANIDE tea",
   Rep("a", 40), Rep("b", 41), Rep("c", 50), Rep("d", 51),
   Rep(" ", 50) \o "late", " " \o Rep("e", 50)}

\* req.body as express.json() leaves it
Bodies == {EmptyObj} \union {Obj([query |-> Str(q)]) : q \in QueryTexts}

Sources == {"10.0.0.1", "10.0.0.2"}

\* the normalisation without its trim()
NormalizeQueryNoTrim(body) ==
  Slice(StringOf(Coalesce(Get(body, "query"), Str(""))), 0, MaxQueryLength)

\* src/index.js 273 (and 49, part_000 28):
\* String(req.body?.query ?? "").slice(0, 50).trim()
NormalizeQuery(body) ==
  Trim(Slice(StringOf(Coalesce(Get(body, "query"), Str(""))), 0, MaxQueryLength))

\* src/unnamed/part_003 152: String((req.body && req.body.query) || "").trim()
NormalizeQueryEnvelope(body) ==
  Trim(StringOf(OrElse(IF Truthy(body) THEN Get(body, "query") ELSE body, Str(""))))

\* src/index.js 283: mod?.results?.[0]?.flagged
Flagged(mod) == Truthy(Get(At(Get(mod, "results"), 0), "flagged"))

(***************************************************************************)
(* State                                                                   *)
(***************************************************************************)

\* the requests that can be in flight at the same time
Reqs == {1, 2}

\* RateLimiterMemory({ points: 20, duration: 120 })
Points == 20
\* withTimeout(..., 2000, "moderation") and withTimeout(..., 6500, ...)
ModerationTimeoutMs == 2000
GenerationTimeoutMs == 6500

\* requests a source sends beyond its quota within one window
MaxOverLimit == 1

VARIABLES
  rev,        \* the revision of the handler that is deployed
  sources,    \* the source addresses that send requests
  bodies,     \* the request bodies clients send
  clients,    \* the requests (of Reqs) that clients send at the same time
  consumed,   \* limiter: points consumed per source in the current window
  pc,         \* per request: where its handler is suspended
  req,        \* per request: [ip, body]
  gate,       \* per request: how limiter.consume(req.ip) settled
  query,      \* per request: the handler's const query
  modCall,    \* per request: the promise of openai.moderations.create
  modTimer,   \* per request: the setTimeout of the moderation race
  genCall,    \* per request: the promise of responses.create / fetch
  genTimer,   \* per request: the setTimeout of the generation race
  resp,       \* per request: what the generation call resolved with
  fetched,    \* per request: the Response of fetch (envelope revision)
  modInputs,  \* per request: the inputs handed to the moderation service
  genInputs,  \* per request: the inputs handed to the generation service
  sent        \* per request: the responses sent, [status, body], in order

vars ==
  <<rev, sources, bodies, clients, consumed, pc, req, gate, query, modCall, modTimer,
    genCall, genTimer, resp, fetched, modInputs, genInputs, sent>>

limiterVars == <<consumed, gate>>
configVars == <<rev, sources, bodies, clients>>
modVars == <<modCall, modTimer, modInputs>>
genVars == <<genCall, genTimer, genInputs, resp, fetched>>

NoReq == [ip |-> "", body |-> Undef]
NoResp == [ok |-> FALSE, json |-> NotFound]

Revisions == {"main", "first", "part000", "envelope"}

\* no handler has run yet
InitHandlers ==
  /\ pc = [r \in Reqs |-> "idle"]
  /\ req = [r \in Reqs |-> NoReq]
  /\ gate = [r \in Reqs |-> "none"]
  /\ query = [r \in Reqs |-> ""]
  /\ modCall = [r \in Reqs |-> "none"]
  /\ modTimer = [r \in Reqs |-> "none"]
  /\ genCall = [r \in Reqs |-> "none"]
  /\ genTimer = [r \in Reqs |-> "none"]
  /\ resp = [r \in Reqs |-> Undef]
  /\ fetched = [r \in Reqs |-> NoResp]
  /\ modInputs = [r \in Reqs |-> <<>>]
  /\ genInputs = [r \in Reqs |-> <<>>]
  /\ sent = [r \in Reqs |-> <<>>]

InitRequests ==
  /\ consumed = [ip \in Sources |-> 0]
  /\ InitHandlers

\* res.status(status).json(body)
Send(r, status, body) ==
  sent' = [sent EXCEPT ![r] = Append(@, [status |-> status, body |-> body])]

\* a POST /api/scp294 reaches the route: the handler is about to run
Arrive(r) ==
  /\ r \in clients
  /\ pc[r] \in {"idle", "done"}
  /\ \E ip \in sources, b \in bodies :
       /\ consumed[ip] < Points + MaxOverLimit
       /\ req' = [req EXCEPT ![r] = [ip |-> ip, body |-> b]]
  /\ pc' = [pc EXCEPT ![r] = "received"]
  /\ gate' = [gate EXCEPT ![r] = "none"]
  /\ query' = [query EXCEPT ![r] = ""]
  /\ modCall' = [modCall EXCEPT ![r] = "none"]
  /\ modTimer' = [modTimer EXCEPT ![r] = "none"]
  /\ genCall' = [genCall EXCEPT ![r] = "none"]
  /\ genTimer' = [genTimer EXCEPT ![r] = "none"]
  /\ resp' = [resp EXCEPT ![r] = Undef]
  /\ fetched' = [fetched EXCEPT ![r] = NoResp]
  /\ modInputs' = [modInputs EXCEPT ![r] = <<>>]
  /\ genInputs' = [genInputs EXCEPT ![r] = <<>>]
  /\ sent' = [sent EXCEPT ![r] = <<>>]
  /\ UNCHANGED <<configVars, consumed>>

\* the limiter's window of a source ends: its key expires
LimiterExpire(ip) ==
  /\ consumed[ip] > 0
  /\ consumed' = [consumed EXCEPT ![ip] = 0]
  /\ UNCHANGED <<configVars, pc, req, gate, query, modVars, genVars, sent>>

\* a limiter that keeps one count for all sources
ConsumeSharedKey(ip) ==
  consumed["10.0.0.1"] + consumed["10.0.0.2"] + 1 <= Points

\* limiter.consume(ip) resolves when the source has points left
ConsumeResolves(ip) == consumed[ip] + 1 <= Points

\* the handler's response is sent and the handler returns
Finish(r, status, body) ==
  /\ Send(r, status, body)
  /\ pc' = [pc EXCEPT ![r] = "done"]

\* openai.moderations.create({ input: query }), raced against a timer when timed
CallModeration(r, q, timed) ==
  /\ modInputs' = [modInputs EXCEPT ![r] = Append(@, q)]
  /\ modCall' = [modCall EXCEPT ![r] = "pending"]
  /\ modTimer' = [modTimer EXCEPT ![r] = IF timed THEN "armed" ELSE "none"]
  /\ pc' = [pc EXCEPT ![r] = "awaitMod"]

\* openai.responses.create({ input: `Request: ${query}` }) or fetch
CallGeneration(r, timed) ==
  /\ genInputs' = [genInputs EXCEPT ![r] = Append(@, query[r])]
  /\ genCall' = [genCall EXCEPT ![r] = "pending"]
  /\ genTimer' = [genTimer EXCEPT ![r] = IF timed THEN "armed" ELSE "none"]
  /\ pc' = [pc EXCEPT ![r] = "awaitGen"]

(***************************************************************************)
(* The main revision: src/index.js 268-362                                 *)
(* One action per run of the handler between two suspension points.        *)
(***************************************************************************)

\* the handler without the flagged check of src/index.js 283
MainNeverRefuses(mod) == FALSE

\* src/index.js 283
MainRefuses(mod) == Flagged(mod)

\* src/index.js 323-348: what is sent once responses.create has resolved
MainBody(r0, q) ==
  LET data == extractDrinkStruct(r0)
  IN  IF ~Truthy(data) \/ ~Truthy(Get(data, "effectId"))
      THEN FALLBACK_OK(q)
      ELSE Clean(data, q)

\* a handler that looks at the query before it looks at the limiter's answer
MainHandleValidatesFirst(r) ==
  /\ rev = "main"
  /\ pc[r] = "received"
  /\ consumed' = [consumed EXCEPT ![req[r].ip] = @ + 1]
  /\ gate' = [gate EXCEPT ![r] =
                IF ConsumeResolves(req[r].ip) THEN "resolved" ELSE "rejected"]
  /\ IF NormalizeQuery(req[r].body) = ""
     THEN /\ Finish(r, 400, MissingQuery)
          /\ UNCHANGED <<query, modVars>>
     ELSE IF ~ConsumeResolves(req[r].ip)
     THEN /\ Finish(r, 200, HardFailsafe)
          /\ UNCHANGED <<query, modVars>>
     ELSE /\ query' = [query EXCEPT ![r] = NormalizeQuery(req[r].body)]
          /\ CallModeration(r, NormalizeQuery(req[r].body), TRUE)
          /\ UNCHANGED sent
  /\ UNCHANGED <<configVars, req, genVars>>

\* src/index.js 270-282: limiter, validation, and the moderation call
MainHandle(r) ==
  /\ rev = "main"
  /\ pc[r] = "received"
  /\ consumed' = [consumed EXCEPT ![req[r].ip] = @ + 1]
  /\ gate' = [gate EXCEPT ![r] =
                IF ConsumeResolves(req[r].ip) THEN "resolved" ELSE "rejected"]
  /\ IF ~ConsumeResolves(req[r].ip)
     THEN /\ Finish(r, 200, HardFailsafe)
          /\ UNCHANGED <<query, modVars>>
     ELSE IF NormalizeQuery(req[r].body) = ""
     THEN /\ Finish(r, 400, MissingQuery)
          /\ UNCHANGED <<query, modVars>>
     ELSE /\ query' = [query EXCEPT ![r] = NormalizeQuery(req[r].body)]
          /\ CallModeration(r, NormalizeQuery(req[r].body), TRUE)
          /\ UNCHANGED sent
  /\ UNCHANGED <<configVars, req, genVars>>

\* a handler whose query lives in one variable shared by all requests: the
\* generation call is made with another request's query
MainGenerateSharedQuery(r) ==
  /\ genInputs' = [genInputs EXCEPT ![r] =
                     Append(@, query[CHOOSE o \in Reqs : o # r])]
  /\ genCall' = [genCall EXCEPT ![r] = "pending"]
  /\ genTimer' = [genTimer EXCEPT ![r] = "armed"]
  /\ pc' = [pc EXCEPT ![r] = "awaitGen"]
  /\ UNCHANGED <<resp, fetched, sent>>

\* src/index.js 297-317: the generation call, raced against its timer
MainGenerate(r) ==
  /\ CallGeneration(r, TRUE)
  /\ UNCHANGED <<resp, fetched, sent>>

\* a race that a late moderation verdict still wins: the handler's
\* continuation runs whenever the promise resolves
MainModerationResolvesLate(r) ==
  /\ rev = "main"
  /\ modCall[r] = "pending"
  /\ \E mod \in ModerationResults :
       /\ modCall' = [modCall EXCEPT ![r] = IF Flagged(mod) THEN "flagged" ELSE "passed"]
       /\ IF pc[r] # "awaitMod" /\ ~MainRefuses(mod)
          THEN UNCHANGED <<pc, sent, genVars>>
          ELSE IF MainRefuses(mod)
          THEN Finish(r, 200, RefusalFallback) /\ UNCHANGED genVars
          ELSE MainGenerate(r)
  /\ UNCHANGED <<configVars, limiterVars, req, query, modTimer, modInputs>>

\* the moderation promise resolves; src/index.js 283-294 runs if the race is
\* still open
MainModerationResolves(r) ==
  /\ rev = "main"
  /\ modCall[r] = "pending"
  /\ \E mod \in ModerationResults :
       /\ modCall' = [modCall EXCEPT ![r] = IF Flagged(mod) THEN "flagged" ELSE "passed"]
       /\ IF pc[r] # "awaitMod"
          THEN UNCHANGED <<pc, sent, genVars>>
          ELSE IF MainRefuses(mod)
          THEN Finish(r, 200, RefusalFallback) /\ UNCHANGED genVars
          ELSE MainGenerate(r)
  /\ UNCHANGED <<configVars, limiterVars, req, query, modTimer, modInputs>>

\* the moderation promise rejects; src/index.js 295 swallows it
MainModerationRejects(r) ==
  /\ rev = "main"
  /\ modCall[r] = "pending"
  /\ modCall' = [modCall EXCEPT ![r] = "failed"]
  /\ IF pc[r] # "awaitMod"
     THEN UNCHANGED <<pc, sent, genVars>>
     ELSE MainGenerate(r)
  /\ UNCHANGED <<configVars, limiterVars, req, query, modTimer, modInputs>>

\* the 2000 ms timer of src/index.js 278-282 fires
MainModerationTimeout(r) ==
  /\ rev = "main"
  /\ modTimer[r] = "armed"
  /\ modTimer' = [modTimer EXCEPT ![r] = "fired"]
  /\ IF pc[r] # "awaitMod"
     THEN UNCHANGED <<pc, sent, genVars>>
     ELSE MainGenerate(r)
  /\ UNCHANGED <<configVars, limiterVars, req, query, modCall, modInputs>>

\* responses.create resolves; src/index.js 323-348 runs if the race is open
MainGenerationResolves(r) ==
  /\ rev = "main"
  /\ genCall[r] = "pending"
  /\ genCall' = [genCall EXCEPT ![r] = "resolved"]
  /\ \E r0 \in Responses :
       IF pc[r] # "awaitGen"
       THEN UNCHANGED <<pc, sent, resp>>
       ELSE /\ resp' = [resp EXCEPT ![r] = r0]
            /\ Finish(r, 200, MainBody(r0, query[r]))
  /\ UNCHANGED <<configVars, limiterVars, req, query, modVars, genTimer, genInputs, fetched>>

\* a handler that issues the generation call once more when it rejects
MainGenerationRejectsRetries(r) ==
  /\ rev = "main"
  /\ genCall[r] = "pending"
  /\ IF pc[r] # "awaitGen"
     THEN /\ genCall' = [genCall EXCEPT ![r] = "rejected"]
          /\ UNCHANGED <<pc, sent, genInputs>>
     ELSE IF Len(genInputs[r]) < 2
     THEN /\ genInputs' = [genInputs EXCEPT ![r] = Append(@, query[r])]
          /\ UNCHANGED <<pc, sent, genCall>>
     ELSE /\ genCall' = [genCall EXCEPT ![r] = "rejected"]
          /\ Finish(r, 200, FALLBACK_OK(query[r]))
          /\ UNCHANGED genInputs
  /\ UNCHANGED <<configVars, limiterVars, req, query, modVars, genTimer, resp, fetched>>

\* responses.create rejects; src/index.js 318-321
MainGenerationRejects(r) ==
  /\ rev = "main"
  /\ genCall[r] = "pending"
  /\ genCall' = [genCall EXCEPT ![r] = "rejected"]
  /\ IF pc[r] # "awaitGen"
     THEN UNCHANGED <<pc, sent>>
     ELSE Finish(r, 200, FALLBACK_OK(query[r]))
  /\ UNCHANGED <<configVars, limiterVars, req, query, modVars, genTimer, genInputs, resp, fetched>>

\* a timer whose callback answers the request itself, whether or not the
\* request has been answered
MainGenerationTimeoutSends(r) ==
  /\ rev = "main"
  /\ genTimer[r] = "armed"
  /\ (ModerationTimeoutMs < GenerationTimeoutMs => modTimer[r] # "armed")
  /\ genTimer' = [genTimer EXCEPT ![r] = "fired"]
  /\ Finish(r, 200, FALLBACK_OK(query[r]))
  /\ UNCHANGED <<configVars, limiterVars, req, query, modVars, genCall, genInputs, resp, fetched>>

\* the 6500 ms timer of src/index.js 300-317 fires; it was armed after the
\* 2000 ms timer, which has therefore fired before
MainGenerationTimeout(r) ==
  /\ rev = "main"
  /\ genTimer[r] = "armed"
  /\ (ModerationTimeoutMs < GenerationTimeoutMs => modTimer[r] # "armed")
  /\ genTimer' = [genTimer EXCEPT ![r] = "fired"]
  /\ IF pc[r] # "awaitGen"
     THEN UNCHANGED <<pc, sent>>
     ELSE Finish(r, 200, FALLBACK_OK(query[r]))
  /\ UNCHANGED <<configVars, limiterVars, req, query, modVars, genCall, genInputs, resp, fetched>>

NextMain ==
  \/ \E r \in Reqs : Arrive(r)
  \/ \E ip \in Sources : LimiterExpire(ip)
  \/ \E r \in Reqs : MainHandle(r)
  \/ \E r \in Reqs : MainModerationResolves(r)
  \/ \E r \in Reqs : MainModerationRejects(r)
  \/ \E r \in Reqs : MainModerationTimeout(r)
  \/ \E r \in Reqs : MainGenerationResolves(r)
  \/ \E r \in Reqs : MainGenerationRejects(r)
  \/ \E r \in Reqs : MainGenerationTimeout(r)

InitMain ==
  /\ rev = "main"
  /\ sources = {"10.0.0.1"}
  /\ bodies = Bodies
  /\ clients = {1}
  /\ InitRequests

SpecMain == InitMain /\ [][NextMain]_vars

(***************************************************************************)
(* The first revision of src/index.js: lines 45-120                        *)
(***************************************************************************)

\* src/index.js 93-106: what is sent once responses.create has resolved
FirstBody(data, q) ==
  IF ~Truthy(data) \/ ~Truthy(Get(data, "effectId"))
  THEN FALLBACK_OK(q)
  ELSE data

\* src/index.js 47-57
FirstHandle(r) ==
  /\ rev = "first"
  /\ pc[r] = "received"
  /\ consumed' = [consumed EXCEPT ![req[r].ip] = @ + 1]
  /\ gate' = [gate EXCEPT ![r] =
                IF ConsumeResolves(req[r].ip) THEN "resolved" ELSE "rejected"]
  /\ IF ~ConsumeResolves(req[r].ip)
     THEN /\ Finish(r, 200, HardFailsafe)
          /\ UNCHANGED <<query, modVars>>
     ELSE IF NormalizeQuery(req[r].body) = ""
     THEN /\ Finish(r, 400, MissingQuery)
          /\ UNCHANGED <<query, modVars>>
     ELSE /\ query' = [query EXCEPT ![r] = NormalizeQuery(req[r].body)]
          /\ CallModeration(r, NormalizeQuery(req[r].body), FALSE)
          /\ UNCHANGED sent
  /\ UNCHANGED <<configVars, req, genVars>>

\* src/index.js 75-85: the generation call, awaited without a timer
FirstGenerate(r) ==
  /\ CallGeneration(r, FALSE)
  /\ UNCHANGED <<resp, fetched, sent>>

\* src/index.js 58-72: a verdict, or a TypeError caught by the inner catch
FirstModerationResolves(r) ==
  /\ rev = "first"
  /\ modCall[r] = "pending"
  /\ \E mod \in ModerationResults :
       /\ modCall' = [modCall EXCEPT ![r] = IF Flagged(mod) THEN "flagged" ELSE "passed"]
       /\ IF ~Throws(mod) /\ Flagged(mod)
          THEN Finish(r, 200, RefusalFallback) /\ UNCHANGED genVars
          ELSE FirstGenerate(r)
  /\ UNCHANGED <<configVars, limiterVars, req, query, modTimer, modInputs>>

\* src/index.js 70-72
FirstModerationRejects(r) ==
  /\ rev = "first"
  /\ modCall[r] = "pending"
  /\ modCall' = [modCall EXCEPT ![r] = "failed"]
  /\ FirstGenerate(r)
  /\ UNCHANGED <<configVars, limiterVars, req, query, modTimer, modInputs>>

\* src/index.js 88-106, and 107-119 when reading the response throws
FirstGenerationResolves(r) ==
  /\ rev = "first"
  /\ genCall[r] = "pending"
  /\ genCall' = [genCall EXCEPT ![r] = "resolved"]
  /\ \E r0 \in Responses :
       /\ resp' = [resp EXCEPT ![r] = r0]
       /\ IF ParseFirst(r0).found
          THEN Finish(r, 200, FirstBody(ParseFirst(r0).val, query[r]))
          ELSE Finish(r, 200, HardFailsafe)
  /\ UNCHANGED <<configVars, limiterVars, req, query, modVars, genTimer, genInputs, fetched>>

\* responses.create rejects: nothing catches it before src/index.js 107-119
FirstGenerationRejects(r) ==
  /\ rev = "first"
  /\ genCall[r] = "pending"
  /\ genCall' = [genCall EXCEPT ![r] = "rejected"]
  /\ Finish(r, 200, HardFailsafe)
  /\ UNCHANGED <<configVars, limiterVars, req, query, modVars, genTimer, genInputs, resp, fetched>>

NextFirst ==
  \/ \E r \in Reqs : Arrive(r)
  \/ \E ip \in Sources : LimiterExpire(ip)
  \/ \E r \in Reqs : FirstHandle(r)
  \/ \E r \in Reqs : FirstModerationResolves(r)
  \/ \E r \in Reqs : FirstModerationRejects(r)
  \/ \E r \in Reqs : FirstGenerationResolves(r)
  \/ \E r \in Reqs : FirstGenerationRejects(r)

InitFirst ==
  /\ rev = "first"
  /\ sources = {"10.0.0.1"}
  /\ bodies = Bodies
  /\ clients = {1}
  /\ InitRequests

SpecFirst == InitFirst /\ [][NextFirst]_vars

(***************************************************************************)
(* The oldest handler: src/unnamed/part_000 24-97                          *)
(***************************************************************************)

\* part_000 70-83
Part000Body(data) ==
  IF ~Truthy(data) \/ ~Truthy(Get(data, "effectId"))
  THEN GenericBeverage
  ELSE data

\* part_000 26-36
Part000Handle(r) ==
  /\ rev = "part000"
  /\ pc[r] = "received"
  /\ consumed' = [consumed EXCEPT ![req[r].ip] = @ + 1]
  /\ gate' = [gate EXCEPT ![r] =
                IF ConsumeResolves(req[r].ip) THEN "resolved" ELSE "rejected"]
  /\ IF ~ConsumeResolves(req[r].ip)
     THEN /\ Finish(r, 200, HardFailsafe)
          /\ UNCHANGED <<query, modVars>>
     ELSE IF NormalizeQuery(req[r].body) = ""
     THEN /\ Finish(r, 400, MissingQuery)
          /\ UNCHANGED <<query, modVars>>
     ELSE /\ query' = [query EXCEPT ![r] = NormalizeQuery(req[r].body)]
          /\ CallModeration(r, NormalizeQuery(req[r].body), FALSE)
          /\ UNCHANGED sent
  /\ UNCHANGED <<configVars, req, genVars>>

\* part_000 52-62
Part000Generate(r) ==
  /\ CallGeneration(r, FALSE)
  /\ UNCHANGED <<resp, fetched, sent>>

\* part_000 38-49; reading mod.results of undefined throws into 84-96
Part000ModerationResolves(r) ==
  /\ rev = "part000"
  /\ modCall[r] = "pending"
  /\ \E mod \in ModerationResults :
       /\ modCall' = [modCall EXCEPT ![r] = IF Flagged(mod) THEN "flagged" ELSE "passed"]
       /\ IF Throws(mod)
          THEN Finish(r, 200, HardFailsafe) /\ UNCHANGED genVars
          ELSE IF Flagged(mod)
          THEN Finish(r, 200, RefusalFallback) /\ UNCHANGED genVars
          ELSE Part000Generate(r)
  /\ UNCHANGED <<configVars, limiterVars, req, query, modTimer, modInputs>>

\* moderations.create rejects: nothing catches it before part_000 84-96
Part000ModerationRejects(r) ==
  /\ rev = "part000"
  /\ modCall[r] = "pending"
  /\ modCall' = [modCall EXCEPT ![r] = "failed"]
  /\ Finish(r, 200, HardFailsafe)
  /\ UNCHANGED <<configVars, limiterVars, req, query, modTimer, modInputs, genVars>>

\* part_000 65-83, and 84-96 when reading the response throws
Part000GenerationResolves(r) ==
  /\ rev = "part000"
  /\ genCall[r] = "pending"
  /\ genCall' = [genCall EXCEPT ![r] = "resolved"]
  /\ \E r0 \in Responses :
       /\ resp' = [resp EXCEPT ![r] = r0]
       /\ IF ParsePart000(r0).found
          THEN Finish(r, 200, Part000Body(ParsePart000(r0).val))
          ELSE Finish(r, 200, HardFailsafe)
  /\ UNCHANGED <<configVars, limiterVars, req, query, modVars, genTimer, genInputs, fetched>>

\* responses.create rejects: part_000 84-96
Part000GenerationRejects(r) ==
  /\ rev = "part000"
  /\ genCall[r] = "pending"
  /\ genCall' = [genCall EXCEPT ![r] = "rejected"]
  /\ Finish(r, 200, HardFailsafe)
  /\ UNCHANGED <<configVars, limiterVars, req, query, modVars, genTimer, genInputs, resp, fetched>>

NextPart000 ==
  \/ \E r \in Reqs : Arrive(r)
  \/ \E ip \in Sources : LimiterExpire(ip)
  \/ \E r \in Reqs : Part000Handle(r)
  \/ \E r \in Reqs : Part000ModerationResolves(r)
  \/ \E r \in Reqs : Part000ModerationRejects(r)
  \/ \E r \in Reqs : Part000GenerationResolves(r)
  \/ \E r \in Reqs : Part000GenerationRejects(r)

InitPart000 ==
  /\ rev = "part000"
  /\ sources = {"10.0.0.1"}
  /\ bodies = Bodies
  /\ clients = {1}
  /\ InitRequests

SpecPart000 == InitPart000 /\ [][NextPart000]_vars

(***************************************************************************)
(* The envelope revision: src/unnamed/part_003 150-216                     *)
(***************************************************************************)

\* part_003 192-211, and 212-215 when extractDrink or drink.effectId throws
EnvelopeModelResponse(data) ==
  IF ~extractDrink(data).found \/ Throws(extractDrink(data).val)
  THEN [status |-> 500, body |-> ServerError]
  ELSE [status |-> 200,
        body |-> Envelope("model", GuardAndClamp(extractDrink(data).val))]

\* part_003 152-182: validation, the deny check, and the fetch
EnvelopeHandle(r) ==
  /\ rev = "envelope"
  /\ pc[r] = "received"
  /\ IF NormalizeQueryEnvelope(req[r].body) = ""
     THEN /\ Finish(r, 400, MissingQueryEnvelope)
          /\ UNCHANGED <<query, genVars>>
     ELSE IF isDenied(NormalizeQueryEnvelope(req[r].body))
     THEN /\ Finish(r, 200,
                    Envelope("denylist", FALLBACK_DENY(NormalizeQueryEnvelope(req[r].body))))
          /\ query' = [query EXCEPT ![r] = NormalizeQueryEnvelope(req[r].body)]
          /\ UNCHANGED genVars
     ELSE /\ query' = [query EXCEPT ![r] = NormalizeQueryEnvelope(req[r].body)]
          /\ genInputs' = [genInputs EXCEPT ![r] =
                             Append(@, NormalizeQueryEnvelope(req[r].body))]
          /\ genCall' = [genCall EXCEPT ![r] = "pending"]
          /\ pc' = [pc EXCEPT ![r] = "awaitGen"]
          /\ UNCHANGED <<genTimer, resp, fetched, sent>>
  /\ UNCHANGED <<configVars, limiterVars, req, modVars>>

\* fetch resolves: part_003 184-191 up to the next await
EnvelopeFetchResolves(r) ==
  /\ rev = "envelope"
  /\ pc[r] = "awaitGen"
  /\ genCall[r] = "pending"
  /\ genCall' = [genCall EXCEPT ![r] = "resolved"]
  /\ \E f \in FetchResponses :
       /\ fetched' = [fetched EXCEPT ![r] = f]
       /\ pc' = [pc EXCEPT ![r] = IF f.ok THEN "awaitJson" ELSE "awaitText"]
  /\ UNCHANGED <<configVars, limiterVars, req, query, modVars, genTimer, genInputs,
                 resp, sent>>

\* fetch rejects: part_003 212-215
EnvelopeFetchRejects(r) ==
  /\ rev = "envelope"
  /\ pc[r] = "awaitGen"
  /\ genCall[r] = "pending"
  /\ genCall' = [genCall EXCEPT ![r] = "rejected"]
  /\ Finish(r, 500, ServerError)
  /\ UNCHANGED <<configVars, limiterVars, req, query, modVars, genTimer, genInputs,
                 resp, fetched>>

\* r.text().catch(() => "") settles either way: part_003 185-188
EnvelopeTextSettles(r) ==
  /\ rev = "envelope"
  /\ pc[r] = "awaitText"
  /\ Finish(r, 200, Envelope("fallback", FALLBACK_OK_Envelope(query[r])))
  /\ UNCHANGED <<configVars, limiterVars, req, query, modVars, genVars>>

\* r.json() settles: part_003 191-211, or 212-215 when it rejects
EnvelopeJsonSettles(r) ==
  /\ rev = "envelope"
  /\ pc[r] = "awaitJson"
  /\ IF fetched[r].json.found
     THEN /\ resp' = [resp EXCEPT ![r] = fetched[r].json.val]
          /\ Finish(r, EnvelopeModelResponse(fetched[r].json.val).status,
                    EnvelopeModelResponse(fetched[r].json.val).body)
     ELSE /\ Finish(r, 500, ServerError)
          /\ UNCHANGED resp
  /\ UNCHANGED <<configVars, limiterVars, req, query, modVars, genCall, genTimer,
                 genInputs, fetched>>

NextEnvelope ==
  \/ \E r \in Reqs : Arrive(r)
  \/ \E r \in Reqs : EnvelopeHandle(r)
  \/ \E r \in Reqs : EnvelopeFetchResolves(r)
  \/ \E r \in Reqs : EnvelopeFetchRejects(r)
  \/ \E r \in Reqs : EnvelopeTextSettles(r)
  \/ \E r \in Reqs : EnvelopeJsonSettles(r)

InitEnvelope ==
  /\ rev = "envelope"
  /\ sources = {"10.0.0.1"}
  /\ bodies = Bodies
  /\ clients = {1}
  /\ InitRequests

SpecEnvelope == InitEnvelope /\ [][NextEnvelope]_vars

(***************************************************************************)
(* Two clients of the main revision in flight at the same time, late in a  *)
(* limiter window that does not end during the run: the source has one     *)
(* point left for each of them                                             *)
(***************************************************************************)

NextConcurrent ==
  \/ \E r \in Reqs : Arrive(r)
  \/ \E r \in Reqs : MainHandle(r)
  \/ \E r \in Reqs : MainModerationResolves(r)
  \/ \E r \in Reqs : MainModerationRejects(r)
  \/ \E r \in Reqs : MainModerationTimeout(r)
  \/ \E r \in Reqs : MainGenerationResolves(r)
  \/ \E r \in Reqs : MainGenerationRejects(r)
  \/ \E r \in Reqs : MainGenerationTimeout(r)

InitConcurrent ==
  /\ rev = "main"
  /\ sources = {"10.0.0.1"}
  /\ bodies = {Obj([query |-> Str("lemonade")]), Obj([query |-> Str("cyanide")])}
  /\ clients = Reqs
  /\ consumed = [ip \in Sources |-> Points - Cardinality(Reqs)]
  /\ InitHandlers

SpecConcurrent == InitConcurrent /\ [][NextConcurrent]_vars

(***************************************************************************)
(* Two sources and one limiter, under the two handlers that consult it     *)
(* first: src/index.js 268-362 and src/unnamed/part_000 24-97              *)
(***************************************************************************)

NextTwoSources == NextMain \/ NextPart000

InitTwoSources ==
  /\ rev \in {"main", "part000"}
  /\ sources = Sources
  /\ bodies = {EmptyObj, Obj([query |-> Str("   ")]), Obj([query |-> Str("lemonade")])}
  /\ clients = {1}
  /\ InitRequests

SpecTwoSources == InitTwoSources /\ [][NextTwoSources]_vars

(***************************************************************************)
(* Every revision                                                          *)
(***************************************************************************)

Init ==
  /\ rev \in Revisions
  /\ sources = {"10.0.0.1"}
  /\ bodies = Bodies
  /\ clients = {1}
  /\ InitRequests

Next == NextMain \/ NextFirst \/ NextPart000 \/ NextEnvelope

Spec == Init /\ [][Next]_vars

(***************************************************************************)
(* Properties                                                              *)
(***************************************************************************)

\* req.body.query as the client sent it
ClientQuery(r) == Get(req[r].body, "query")

\* the client's query is missing, empty or only whitespace
QueryMissing(r) == ~IsStr(ClientQuery(r)) \/ Trim(ClientQuery(r).s) = ""

Only(status, body) == <<[status |-> status, body |-> body]>>

\* C1: every response to a request whose query is non-empty after trimming
\* and at most 50 characters long is an instance of the Response Schema,
\* whatever the moderation and generation services did.
C1_ResponseSatisfiesSchema ==
  \A r \in Reqs :
    (/\ IsStr(ClientQuery(r))
     /\ Trim(ClientQuery(r).s) # ""
     /\ Len(ClientQuery(r).s) <= MaxQueryLength)
    => \A i \in 1..Len(sent[r]) : DrinkSchema(sent[r][i].body)

\* C2: every response to a request with a non-empty query has HTTP status
\* 200, whatever the upstream services do.
C2_StatusAlways200 ==
  \A r \in Reqs :
    ~QueryMissing(r) => \A i \in 1..Len(sent[r]) : sent[r][i].status = 200

\* C3: a flagged verdict that arrives before the moderation timer fires is
\* answered with the Refusal Fallback (effectId NONE, grey, refusal message,
\* no effectParams), and a request answered with the Refusal Fallback never
\* invoked the generation service.
C3_FlaggedIsRefused ==
  \A r \in Reqs :
    /\ (modCall[r] = "flagged" /\ modTimer[r] = "armed")
         => /\ sent[r] = Only(200, RefusalFallback)
            /\ pc[r] = "done"
            /\ Get(sent[r][1].body, "effectId") = Str("NONE")
            /\ Get(sent[r][1].body, "colorHex") = Str("#7F7F7F")
            /\ Get(sent[r][1].body, "message")
                 = Str("The machine refuses to dispense that request.")
            /\ Get(sent[r][1].body, "effectParams") = Undef
    /\ (\E i \in 1..Len(sent[r]) : sent[r][i].body = RefusalFallback)
         => genInputs[r] = <<>> /\ genCall[r] = "none"

C3_Witness ==
  \E r \in Reqs :
    /\ modCall[r] = "flagged"
    /\ modTimer[r] = "armed"
    /\ sent[r] = Only(200, RefusalFallback)

\* C4: a moderation call that fails or times out does not block or change
\* the outcome: the generation call is made, and nothing is sent (no refusal,
\* no Hard Failsafe) before the generation call settles or times out.
C4_ModerationFailureProceeds ==
  \A r \in Reqs :
    (modCall[r] = "failed" \/ (modCall[r] = "pending" /\ modTimer[r] = "fired"))
    => /\ Len(genInputs[r]) = 1
       /\ (genCall[r] = "pending" /\ genTimer[r] # "fired" => sent[r] = <<>>)

\* C5: when the generation call fails (rejects, or its timer fires first) the
\* one response is the Generic OK Fallback at status 200.
C5_GenerationFailureGivesGenericOk ==
  \A r \in Reqs :
    (genCall[r] = "rejected" \/ (genCall[r] = "pending" /\ genTimer[r] = "fired"))
    => /\ sent[r] = Only(200, FALLBACK_OK(query[r]))
       /\ Get(sent[r][1].body, "effectId") = Str("NONE")
       /\ Get(sent[r][1].body, "message")
            = Str("A nondescript drink dispenses with a soft hum.")

\* the text contains a denylisted term, in any letter case
ContainsDenylisted(text) == \E term \in DENY : Includes(ToLowerCase(text), term)

\* "#RRGGBB" with RR = GG = BB
IsGrey(v) ==
  /\ ColorHexValid(v)
  /\ SubSeq(v.s, 2, 3) = SubSeq(v.s, 4, 5)
  /\ SubSeq(v.s, 4, 5) = SubSeq(v.s, 6, 7)

C7_MissingQueryAlways400 ==
  \A r \in Reqs :
    (pc[r] = "done" /\ QueryMissing(r))
    => /\ sent[r] = Only(400, MissingQuery)
       /\ modInputs[r] = <<>>
       /\ genInputs[r] = <<>>

\* C7 as amended: a request whose query is missing, empty or only whitespace
\* is answered with 400 when the rate limiter admitted it (the envelope
\* revision has no limiter), with the body {error: "Missing query"}, or the
\* error envelope in the envelope revision; when the limiter rejected it, it
\* is answered with the Hard Failsafe at 200. No moderation or generation
\* call is made for it either way.
C7_MissingQuery400WhenAdmitted ==
  \A r \in Reqs :
    (pc[r] = "done" /\ QueryMissing(r))
    => /\ sent[r] =
            IF gate[r] = "rejected" THEN Only(200, HardFailsafe)
            ELSE IF rev = "envelope" THEN Only(400, MissingQueryEnvelope)
            ELSE Only(400, MissingQuery)
       /\ modInputs[r] = <<>> /\ modCall[r] = "none"
       /\ genInputs[r] = <<>> /\ genCall[r] = "none"

C7_Witness ==
  \E r \in Reqs :
    /\ pc[r] = "done"
    /\ ClientQuery(r) = Str("   ")
    /\ gate[r] = "resolved"
    /\ sent[r] = Only(400, MissingQuery)

\* C8: the handler never waits on an external call without a timer racing
\* it, and once the moderation timer and the generation timer have both
\* fired the response has been sent; with timers that always fire, every
\* accepted request is therefore answered.
C8_EveryWaitIsTimed ==
  \A r \in Reqs :
    /\ pc[r] = "awaitMod" => modTimer[r] = "armed"
    /\ pc[r] = "awaitGen" => genTimer[r] = "armed"
    /\ pc[r] \notin {"awaitText", "awaitJson"}
    /\ (modTimer[r] = "fired" /\ genTimer[r] = "fired") => Len(sent[r]) = 1

\* C9: every string handed to the moderation or the generation service is
\* the client's query cut to its first 50 characters and trimmed, so it has
\* at most 50 characters; a query of exactly 50 characters is handed on
\* unchanged.
C9_HandedQueryIsBounded ==
  \A r \in Reqs :
    \A i \in 1..(Len(modInputs[r]) + Len(genInputs[r])) :
      LET handed == (modInputs[r] \o genInputs[r])[i]
      IN  /\ Len(handed) <= MaxQueryLength
          /\ handed = Trim(Slice(ClientQuery(r).s, 0, MaxQueryLength))
          /\ (Len(ClientQuery(r).s) = MaxQueryLength
                /\ Trim(ClientQuery(r).s) = ClientQuery(r).s
                => handed = ClientQuery(r).s)

\* the response of the "lemonade" scenario, written out
LemonadeResponse ==
  Obj([displayName |-> Str("lemonade"),
       colorHex    |-> Str("#A0C4FF"),
       temperature |-> Str("ambient"),
       container   |-> Str("paper_cup"),
       visual      |-> Obj([foam |-> Bool(FALSE), bubbles |-> Bool(TRUE),
                            steam |-> Bool(FALSE)]),
       tasteNotes  |-> Arr(<<Str("mild")>>),
       effectId    |-> Str("NONE"),
       message     |-> Str("A nondescript drink dispenses with a soft hum.")])

\* C10: query "lemonade", moderation not flagging, generation unavailable:
\* the response is exactly LemonadeResponse; and every Generic OK Fallback
\* that is sent has the request's query as displayName and the fixed values
\* of LemonadeResponse in every other field.
C10_LemonadeScenario ==
  \A r \in Reqs :
    /\ (query[r] = "lemonade" /\ modCall[r] = "passed" /\ genCall[r] = "rejected")
         => sent[r] = Only(200, LemonadeResponse)
    /\ \A i \in 1..Len(sent[r]) :
         Get(sent[r][i].body, "message")
           = Str("A nondescript drink dispenses with a soft hum.")
         => sent[r][i].body =
              Obj([LemonadeResponse.o EXCEPT !.displayName = Str(query[r])])

\* the generation call of request r failed: it rejected, or its timer fired
\* while it was pending
GenerationFailed(r) ==
  genCall[r] = "rejected" \/ (genCall[r] = "pending" /\ genTimer[r] = "fired")

\* C11: the fallback tier depends only on the cause: the Refusal Fallback is
\* sent only after a flagged verdict, the Generic OK Fallback only after the
\* generation call was made, and the Hard Failsafe (effectId COOLING) only
\* when the rate limiter rejected the request or an unanticipated exception
\* was thrown (the generation call resolved with no response object), never
\* after a moderation failure, a generation failure or a timeout.
C11_FallbackTierByCause ==
  \A r \in Reqs :
    \A i \in 1..Len(sent[r]) :
      /\ sent[r][i].body = RefusalFallback => modCall[r] = "flagged"
      /\ Get(sent[r][i].body, "message")
           = Str("A nondescript drink dispenses with a soft hum.")
           => genCall[r] # "none"
      /\ Get(sent[r][i].body, "effectId") = Str("COOLING")
           /\ sent[r][i].body = HardFailsafe
           => /\ \/ gate[r] = "rejected"
                 \/ genCall[r] = "resolved" /\ Throws(resp[r])
              /\ modCall[r] # "failed"
              /\ ~GenerationFailed(r)

\* C12: every fallback object that is sent is a complete, valid instance of
\* the Response Schema; in particular the Generic OK Fallback built from the
\* request's query has a displayName of at most 40 characters.
C12_FallbacksAreValid ==
  \A r \in Reqs :
    \A i \in 1..Len(sent[r]) :
      /\ sent[r][i].body \in {RefusalFallback, HardFailsafe} => DrinkSchema(sent[r][i].body)
      /\ sent[r][i].body = FALLBACK_OK(query[r])
           => /\ Len(Get(sent[r][i].body, "displayName").s) <= DisplayNameMaxLength
              /\ DrinkSchema(sent[r][i].body)

\* the candidate object the handler of the deployed revision extracts from
\* what the generation call resolved with; Null when nothing is extracted
Candidate(r) ==
  IF rev = "envelope"
  THEN IF extractDrink(resp[r]).found THEN extractDrink(resp[r]).val ELSE Null
  ELSE extractDrinkStruct(resp[r])

\* the generation call of request r resolved with a response body
GenerationSucceeded(r) ==
  /\ pc[r] = "done"
  /\ genCall[r] = "resolved"
  /\ rev = "envelope" => fetched[r].ok /\ fetched[r].json.found

\* the one response of the Generic OK Fallback in the deployed revision
GenericOkResponse(r) ==
  IF rev = "envelope"
  THEN Only(200, Envelope("fallback", FALLBACK_OK_Envelope(query[r])))
  ELSE Only(200, FALLBACK_OK(query[r]))

\* C13: when the generation call succeeded and the extracted candidate is
\* null, or an object without effectId, the whole response is the Generic OK
\* Fallback for the request's query, at status 200.
C13_NoCandidateGivesGenericOk ==
  \A r \in Reqs :
    (/\ rev \in {"main", "envelope"}
     /\ GenerationSucceeded(r)
     /\ (~Truthy(Candidate(r)) \/ ~Truthy(Get(Candidate(r), "effectId"))))
    => sent[r] = GenericOkResponse(r)

\* the Effect Catalog of the deployed revision
EffectCatalog == IF rev = "envelope" THEN EFFECT_ENUM ELSE EffectEnum

\* the drink object of the one response sent for request r
SentDrink(r) ==
  IF rev = "envelope" THEN Get(sent[r][1].body, "drink") ELSE sent[r][1].body

\* a candidate with an effectId was extracted for request r
HasCandidate(r) ==
  /\ GenerationSucceeded(r)
  /\ Truthy(Candidate(r))
  /\ Truthy(Get(Candidate(r), "effectId"))

\* C14: when the candidate's effectId is not in the Effect Catalog, the
\* response has effectId NONE and its effectParams are the neutral defaults
\* (or the empty default), whatever effectParams the candidate carried.
C14_UnknownEffectIsNeutralised ==
  \A r \in Reqs :
    (/\ rev \in {"main", "envelope"}
     /\ HasCandidate(r)
     /\ ~(/\ IsStr(Get(Candidate(r), "effectId"))
          /\ Get(Candidate(r), "effectId").s \in EffectCatalog))
    => /\ Len(sent[r]) = 1
       /\ Get(SentDrink(r), "effectId") = Str("NONE")
       /\ Get(SentDrink(r), "effectParams") \in {NeutralParams, EmptyObj}

\* the [min, max] the deployed revision's schema declares for each numeric
\* effect parameter, in tenths
DeclaredRange == IF rev = "envelope" THEN ClampRange ELSE ParamRange

\* C15: for every candidate, each effectParams entry of the response
\* (duration, speedMultiplier, jumpBoost, glowBrightness, power, radius) is a
\* number within its declared [min, max]; the response is still sent with
\* status 200.
C15_EffectParamsAreClamped ==
  \A r \in Reqs :
    (rev \in {"main", "envelope"} /\ HasCandidate(r))
    => /\ Len(sent[r]) = 1
       /\ sent[r][1].status = 200
       /\ \A k \in ParamKeys :
            Get(Get(SentDrink(r), "effectParams"), k) # Undef
            => /\ IsNum(Get(Get(SentDrink(r), "effectParams"), k))
               /\ Get(Get(SentDrink(r), "effectParams"), k).n >= DeclaredRange[k].min
               /\ Get(Get(SentDrink(r), "effectParams"), k).n <= DeclaredRange[k].max

\* C16: a candidate that the Response Schema accepts is sent unchanged,
\* field for field: the Sanitizer adds, drops and replaces nothing, also
\* when the candidate omits the optional effectParams or has an empty
\* displayName or message.
C16_ValidObjectRoundTrips ==
  \A r \in Reqs :
    (rev = "main" /\ HasCandidate(r) /\ DrinkSchema(Candidate(r)))
    => /\ sent[r] = Only(200, Candidate(r))
       /\ Clean(Candidate(r), query[r]) = Candidate(r)

\* C17: sanitization is idempotent: applying the Sanitizer (or, in the
\* envelope revision, the final guard and clamp) to the drink object it
\* produced gives that same object.
C17_SanitizerIsIdempotent ==
  \A r \in Reqs :
    (rev \in {"main", "envelope"} /\ HasCandidate(r) /\ Len(sent[r]) = 1)
    => IF rev = "envelope"
       THEN GuardAndClamp(SentDrink(r)) = SentDrink(r)
       ELSE /\ SentDrink(r) = Clean(Candidate(r), query[r])
            /\ Clean(SentDrink(r), query[r]) = SentDrink(r)

\* C18: a request the rate limiter rejects is answered with the Hard
\* Failsafe (effectId COOLING) and nothing else: no validation answer is
\* sent, the query is not taken from the body, and neither the moderation
\* nor the generation service is invoked.
C18_LimiterRejectionShortCircuits ==
  \A r \in Reqs :
    gate[r] = "rejected"
    => /\ pc[r] = "done"
       /\ sent[r] = Only(200, HardFailsafe)
       /\ Get(sent[r][1].body, "effectId") = Str("COOLING")
       /\ query[r] = ""
       /\ modInputs[r] = <<>> /\ modCall[r] = "none" /\ modTimer[r] = "none"
       /\ genInputs[r] = <<>> /\ genCall[r] = "none" /\ genTimer[r] = "none"

C18_Witness ==
  \E r \in Reqs :
    /\ gate[r] = "rejected"
    /\ consumed[req[r].ip] > Points
    /\ sent[r] = Only(200, HardFailsafe)
    /\ QueryMissing(r)

\* C19: once the timer of a call has fired, the call's eventual result is
\* ignored: a moderation verdict (flagged or not) or a generation result
\* that settles after its timer changes neither the response nor the stage
\* of the request; and at the step where a timer fires on a pending call the
\* handler moves on: to the generation call when it is the moderation timer,
\* to the Generic OK Fallback when it is the generation timer.
C19_LateResultsAreIgnored ==
  [][\A r \in Reqs :
       /\ (/\ modTimer[r] = "fired"
           /\ modCall[r] = "pending"
           /\ modCall'[r] \in {"passed", "flagged", "failed"})
            => /\ sent'[r] = sent[r]
               /\ pc'[r] = pc[r]
               /\ genInputs'[r] = genInputs[r]
       /\ (/\ genTimer[r] = "fired"
           /\ genCall[r] = "pending"
           /\ genCall'[r] \in {"resolved", "rejected"})
            => /\ sent'[r] = sent[r]
               /\ pc'[r] = pc[r]
       /\ (modCall[r] = "pending" /\ modTimer[r] = "armed" /\ modTimer'[r] = "fired")
            => /\ pc'[r] = "awaitGen"
               /\ genInputs'[r] = <<query[r]>>
               /\ sent'[r] = <<>>
       /\ (genCall[r] = "pending" /\ genTimer[r] = "armed" /\ genTimer'[r] = "fired")
            => /\ pc'[r] = "done"
               /\ sent'[r] = Only(200, FALLBACK_OK(query[r]))
    ]_vars

C19_Witness ==
  \E r \in Reqs :
    /\ modTimer[r] = "fired"
    /\ modCall[r] = "flagged"
    /\ genTimer[r] = "fired"
    /\ genCall[r] = "resolved"
    /\ sent[r] = Only(200, FALLBACK_OK(query[r]))

\* C20: each request makes at most one moderation call and at most one
\* generation call: whatever fails, times out or cannot be parsed, neither
\* call is issued a second time for the same request.
C20_SingleAttemptPerStage ==
  \A r \in Reqs :
    /\ Len(modInputs[r]) <= 1
    /\ Len(genInputs[r]) <= 1
    /\ modCall[r] # "none" => Len(modInputs[r]) = 1
    /\ genCall[r] # "none" => Len(genInputs[r]) = 1

C20_Witness ==
  \E r \in Reqs :
    /\ pc[r] = "done"
    /\ modCall[r] = "failed"
    /\ genCall[r] = "rejected"
    /\ Len(modInputs[r]) = 1
    /\ Len(genInputs[r]) = 1

\* the JSON object a raw text yields, Null when it yields none
TextObject(t) ==
  IF IsStr(t) /\ ParseText(t.s).found /\ IsObj(ParseText(t.s).val)
  THEN ParseText(t.s).val
  ELSE Null

\* the JSON object one nested content item yields: its pre-parsed object,
\* or the object in its raw text
ItemObject(c) ==
  IF IsObj(Get(c, "parsed")) THEN Get(c, "parsed")
  ELSE IF IsObj(Get(c, "json")) THEN Get(c, "json")
  ELSE TextObject(Get(c, "text"))

\* the content items of all output items of an envelope, in order
RECURSIVE ContentItems(_, _)
ContentItems(out, i) ==
  IF ~IsArr(out) \/ i > Len(out.a) THEN <<>>
  ELSE (IF IsArr(Get(out.a[i], "content")) THEN Get(out.a[i], "content").a ELSE <<>>)
         \o ContentItems(out, i + 1)

\* what each candidate of an envelope yields, in the order (a), (b), (c)
CandidateObjects(r0) ==
  <<IF IsObj(Get(r0, "output_parsed")) THEN Get(r0, "output_parsed") ELSE Null>>
    \o [j \in 1..Len(ContentItems(Get(r0, "output"), 1)) |->
          ItemObject(ContentItems(Get(r0, "output"), 1)[j])]
    \o <<TextObject(Get(r0, "output_text"))>>

\* the first candidate that yields a JSON object, Null when none does
FirstObject(cands) ==
  IF \E j \in 1..Len(cands) : cands[j] # Null
  THEN cands[CHOOSE j \in 1..Len(cands) :
               cands[j] # Null /\ \A k \in 1..(j - 1) : cands[k] = Null]
  ELSE Null

\* C21: the Extractor returns the first candidate, in the order (a) top-level
\* pre-parsed field, (b) nested content items, (c) flattened output text,
\* that yields a JSON object, and returns null only when no candidate of the
\* envelope yields one.
C21_ExtractorTakesFirstObject ==
  \A r \in Reqs :
    (rev = "main" /\ pc[r] = "done" /\ genCall[r] = "resolved")
    => extractDrinkStruct(resp[r]) = FirstObject(CandidateObjects(resp[r]))

\* C22: in the envelope revision every response to a non-empty query is the
\* envelope {status: "ok", source, drink} at HTTP 200, and source names where
\* drink came from: "denylist" exactly for the Deny Fallback, "fallback"
\* exactly for the Generic OK Fallback, "model" exactly for the guarded and
\* clamped output of the generation service.
C22_EnvelopeIsConsistent ==
  \A r \in Reqs :
    (rev = "envelope" /\ ~QueryMissing(r))
    => \A i \in 1..Len(sent[r]) :
         LET b == sent[r][i].body
         IN  /\ sent[r][i].status = 200
             /\ Get(b, "status") = Str("ok")
             /\ Get(b, "source") \in {Str("denylist"), Str("fallback"), Str("model")}
             /\ Get(b, "source") = Str("denylist")
                  <=> Get(b, "drink") = FALLBACK_DENY(query[r])
             /\ Get(b, "source") = Str("fallback")
                  <=> Get(b, "drink") = FALLBACK_OK_Envelope(query[r])
             /\ Get(b, "source") = Str("model")
                  <=> /\ genCall[r] = "resolved"
                      /\ extractDrink(resp[r]).found
                      /\ Get(b, "drink") = GuardAndClamp(extractDrink(resp[r]).val)

\* C24: exactly one response is sent per request: a request never has more
\* than one response, a handler that has returned has sent exactly one, and
\* once the response is sent no later step of that request (a timer firing,
\* a call settling) sends again or resumes the handler.
C24_ExactlyOneResponse ==
  [][\A r \in Reqs :
       /\ Len(sent'[r]) <= 1
       /\ pc'[r] = "done" <=> Len(sent'[r]) = 1
       /\ (sent[r] # <<>> /\ pc'[r] # "received")
            => sent'[r] = sent[r] /\ pc'[r] = "done"
    ]_vars

C24_Witness ==
  \E r \in Reqs :
    /\ HasCandidate(r)
    /\ sent[r] = Only(200, Clean(Candidate(r), query[r]))
    /\ modTimer[r] = "fired"
    /\ genTimer[r] = "fired"

\* everything the handler of request r holds
RequestState(r) ==
  <<pc[r], req[r], gate[r], query[r], modCall[r], modTimer[r], modInputs[r],
    genCall[r], genTimer[r], genInputs[r], resp[r], fetched[r], sent[r]>>

\* the response of an admitted request, from its own body and the outcomes
\* of its own calls: 400 for a missing query, the Refusal Fallback when the
\* handler returned without a generation call, and otherwise what the
\* handler makes of the generation result it took (none after a failure or
\* a timeout, which gives the Generic OK Fallback)
OwnResponse(r) ==
  IF NormalizeQuery(req[r].body) = "" THEN Only(400, MissingQuery)
  ELSE IF genCall[r] = "none" THEN Only(200, RefusalFallback)
  ELSE Only(200, MainBody(resp[r], NormalizeQuery(req[r].body)))

\* C23: concurrent requests do not interfere: a step of one request's
\* handler, call or timer leaves everything the other request holds
\* unchanged; the strings a request hands to the moderation and generation
\* services are its own query; and the response of a request that passed the
\* rate-limit gate is determined by its own body and the outcomes of its own
\* calls.
C23_RequestsDoNotInterfere ==
  /\ [](\A r \in Reqs :
          /\ \A i \in 1..Len(modInputs[r]) :
               modInputs[r][i] = NormalizeQuery(req[r].body)
          /\ \A i \in 1..Len(genInputs[r]) :
               genInputs[r][i] = NormalizeQuery(req[r].body)
          /\ (gate[r] = "resolved" /\ pc[r] = "done") => sent[r] = OwnResponse(r))
  /\ [][\A r \in Reqs :
          \A o \in Reqs \ {r} :
            RequestState(r)' # RequestState(r) => RequestState(o)' = RequestState(o)
       ]_vars

C23_Witness ==
  /\ pc[1] = "awaitGen" /\ query[1] = "lemonade" /\ modTimer[1] = "fired"
  /\ pc[2] = "done" /\ query[2] = "cyanide" /\ modCall[2] = "flagged"
  /\ sent[2] = Only(200, RefusalFallback)
  /\ sent[1] = <<>>

====
